---- MODULE Spec2Model ----
(***************************************************************************)
(* The InkVotingDapp contract of src/lib.rs as a state machine.  The       *)
(* variables are the fields of the storage struct; every #[ink(message)]   *)
(* that takes &mut self is one action, executed as a whole.  A Mapping is  *)
(* a function whose DOMAIN is the set of keys that hold a value, so        *)
(* Mapping::get(k) == None is  k \notin DOMAIN m.                          *)
(*                                                                         *)
(* The messages are modelled as the Rust code executes them (as in the     *)
(* repository's own #[ink::test] tests, which call them as methods): a     *)
(* Mapping::insert made before a later check fails stays in storage.       *)
(***************************************************************************)
EXTENDS Integers, Sequences, FiniteSets, TLC

\* ------------------------------------------------------------------ bounds
MaxWeight == 2

\* The callers: the two accounts the repository's tests use.
Accounts == {"alice", "bob"}
Names == {"firstelection", "secondelection"}
\* The labels vote is called with: those of the tests, one of them of no election.
Labels == {"firstproposal", "secondproposal", "inexistentproposal"}
Weights == 0..MaxWeight
\* The proposal lists create_election is called with: the lists of the tests.
ProposalLists == {<<>>, <<"firstproposal", "secondproposal">>}
\* The election ids a caller passes when `names` are the names in use: the
\* ids that can be allocated and one that never is.
IdsFor(names) == 1..(Cardinality(names) + 1)

\* ------------------------------------------------------------------- state
VARIABLES
  elections,        \* Mapping<u32, (AccountId, bool, RegistrationState, ElectionState)>
  elections_list,   \* Vec<Vec<u8>>
  elections_ids,    \* Mapping<Vec<u8>, u32>
  vote_proposals,   \* Mapping<(u32, u32), u128>
  proposals_ids,    \* Mapping<(u32, Vec<u8>), u32>
  proposals_list,   \* Mapping<u32, Vec<Vec<u8>>>
  voters,           \* Mapping<(u32, AccountId), (u128, bool)>
  election_nonce,   \* u32
  election_count,   \* u32
  call,             \* the message executed last, its return value, the events it emitted
  prev_voters,      \* history: `voters` as it was when the last message started
  spent,            \* history: the (election, account) keys whose record has been consumed
  cast              \* history: per (election, label), the weight of the successful votes on it

storage == <<elections, elections_list, elections_ids, vote_proposals,
             proposals_ids, proposals_list, voters, election_nonce, election_count>>
vars == <<elections, elections_list, elections_ids, vote_proposals,
          proposals_ids, proposals_list, voters, election_nonce, election_count,
          call, prev_voters, spent, cast>>

\* ----------------------------------------------------------------- mapping
EmptyMapping == [k \in {} |-> 0]
Insert(m, k, v) == [x \in (DOMAIN m) \cup {k} |-> IF x = k THEN v ELSE m[x]]
GetOr(m, k, d) == IF k \in DOMAIN m THEN m[k] ELSE d

\* AccountId::default(): no caller of the model is this account
DefaultAccount == "default"
\* (AccountId, bool, RegistrationState, ElectionState)::default()
DefaultElection ==
  [owner |-> DefaultAccount, required_registration |-> FALSE,
   registration_state |-> "RegistrationClosed", election_state |-> "ElectionClosed"]

\* The arguments a message does not take hold these defaults in `call`.
NoArgs ==
  [caller |-> DefaultAccount, election_id |-> 0, account |-> DefaultAccount,
   proposal |-> "", weight |-> 0, name |-> "", required_registration |-> FALSE,
   proposals |-> <<>>]

\* Called with an event emitted on every return, Err included
Called_emits_always(op, args, result) ==
  /\ call' = [op |-> op, caller |-> args.caller, election_id |-> args.election_id,
              account |-> args.account, proposal |-> args.proposal,
              weight |-> args.weight, name |-> args.name,
              required_registration |-> args.required_registration,
              proposals |-> args.proposals,
              result |-> result, emitted |-> 1]
  /\ prev_voters' = voters
  /\ spent' = spent \cup {k \in DOMAIN voters' : voters'[k].has_voted}
  /\ cast' = IF op = "vote" /\ result = "Ok" /\ args.weight > 0
             THEN Insert(cast, <<args.election_id, args.proposal>>,
                         GetOr(cast, <<args.election_id, args.proposal>>, 0) + args.weight)
             ELSE cast

\* What `call` records of a message: its name, its caller and arguments, the
\* Result it returned and the number of events it emitted (one emit_event
\* before each Ok(()), none on an early return).  `prev_voters`, `spent` and
\* `cast` follow the message (a vote of weight 0 adds nothing to `cast`).
Called(op, args, result) ==
  /\ call' = [op |-> op, caller |-> args.caller, election_id |-> args.election_id,
              account |-> args.account, proposal |-> args.proposal,
              weight |-> args.weight, name |-> args.name,
              required_registration |-> args.required_registration,
              proposals |-> args.proposals,
              result |-> result, emitted |-> IF result = "Ok" THEN 1 ELSE 0]
  /\ prev_voters' = voters
  /\ spent' = spent \cup {k \in DOMAIN voters' : voters'[k].has_voted}
  /\ cast' = IF op = "vote" /\ result = "Ok" /\ args.weight > 0
             THEN Insert(cast, <<args.election_id, args.proposal>>,
                         GetOr(cast, <<args.election_id, args.proposal>>, 0) + args.weight)
             ELSE cast

\* ----------------------------------------------------------------- helpers
_election_name_exists(name) == name \in DOMAIN elections_ids

_election_id_exists(id) == id \in DOMAIN elections

_is_election_open(election_id) ==
  GetOr(elections, election_id, DefaultElection).election_state = "ElectionOpen"

_is_registration_open(election_id) ==
  GetOr(elections, election_id, DefaultElection).registration_state = "RegistrationOpen"

is_owner(account, election_id) ==
  account = GetOr(elections, election_id, DefaultElection).owner

check_id_existence(id) ==
  IF ~_election_id_exists(id) THEN "ElectionNotValid" ELSE "Ok"

check_sufficient_proposals(proposals) ==
  IF Len(proposals) = 0 THEN "InsufficientProposals" ELSE "Ok"

check_double_election(name) ==
  IF _election_name_exists(name) THEN "ElectionNotValid" ELSE "Ok"

\* check_election_open that passes whatever the flag
check_election_open_unchecked(election_id) == "Ok"

check_election_open(election_id) ==
  IF ~_is_election_open(election_id) THEN "ElectionClosed" ELSE "Ok"

check_registration_open(election_id) ==
  IF ~_is_registration_open(election_id) THEN "RegistrationClosed" ELSE "Ok"

\* only_owner with the comparison left out
only_owner_unchecked(election_id, address) == "Ok"

only_owner(election_id, address) ==
  IF ~is_owner(address, election_id) THEN "OnlyOwner" ELSE "Ok"

check_proposal_valid(election_id, proposal) ==
  IF <<election_id, proposal>> \notin DOMAIN proposals_ids
  THEN "InvalidProposal" ELSE "Ok"

\* The helpers below read or write self.voters in the middle of a message:
\* v is the voters mapping as it stands at that point of the message.
is_voter_registered(v, election_id, voter_address) ==
  <<election_id, voter_address>> \in DOMAIN v

check_voter_registered(v, election_id, voter_address) ==
  IF ~is_voter_registered(v, election_id, voter_address)
  THEN "VoterNotRegistred" ELSE "Ok"

\* register_voter that creates the record with weight 2
register_voter_weight_two(v, voter, election_id) ==
  Insert(v, <<election_id, voter>>, [weight |-> 2, has_voted |-> FALSE])

register_voter(v, voter, election_id) ==
  Insert(v, <<election_id, voter>>, [weight |-> 1, has_voted |-> FALSE])

\* subtract_weight with the consumed flag set on every spend
subtract_weight_always_consumed(v, election_id, voter, weight) ==
  Insert(v, <<election_id, voter>>,
         [weight |-> v[<<election_id, voter>>].weight - weight, has_voted |-> TRUE])

\* voter_weight - weight is a u128 subtraction; every caller has checked
\* weight <= voter_weight before (check_voter_can_vote).
subtract_weight(v, election_id, voter, weight) ==
  LET voter_weight == v[<<election_id, voter>>].weight IN
  IF voter_weight - weight = 0
  THEN Insert(v, <<election_id, voter>>, [weight |-> 0, has_voted |-> TRUE])
  ELSE Insert(v, <<election_id, voter>>,
              [weight |-> voter_weight - weight, has_voted |-> FALSE])

\* delegate without the call of subtract_weight
delegate_without_subtract(v, election_id, delegate_address, delegator_address, weight) ==
  Insert(v, <<election_id, delegate_address>>,
         [weight |-> v[<<election_id, delegate_address>>].weight + weight,
          has_voted |-> FALSE])

\* delegate that keeps the delegate's flag instead of writing false
delegate_keeps_flag(v, election_id, delegate_address, delegator_address, weight) ==
  subtract_weight(
    Insert(v, <<election_id, delegate_address>>,
           [weight |-> v[<<election_id, delegate_address>>].weight + weight,
            has_voted |-> v[<<election_id, delegate_address>>].has_voted]),
    election_id, delegator_address, weight)

\* delegate that moves one unit whatever the weight
delegate_one_unit(v, election_id, delegate_address, delegator_address, weight) ==
  subtract_weight(
    Insert(v, <<election_id, delegate_address>>,
           [weight |-> v[<<election_id, delegate_address>>].weight + 1,
            has_voted |-> FALSE]),
    election_id, delegator_address, weight)

delegate(v, election_id, delegate_address, delegator_address, weight) ==
  LET weight_delegate == v[<<election_id, delegate_address>>].weight
      v1 == Insert(v, <<election_id, delegate_address>>,
                   [weight |-> weight_delegate + weight, has_voted |-> FALSE])
  IN subtract_weight(v1, election_id, delegator_address, weight)

\* check_voter_can_vote without the test of the weight
check_voter_can_vote_flag_only(v, election_id, voter_address, weight) ==
  IF v[<<election_id, voter_address>>].has_voted
  THEN "VoterHasAlreadyVoted" ELSE "Ok"

\* check_voter_can_vote without the test of voter_has_voted
check_voter_can_vote_weight_only(v, election_id, voter_address, weight) ==
  IF v[<<election_id, voter_address>>].weight < weight
  THEN "VoterHasNotSoMuchWeight" ELSE "Ok"

check_voter_can_vote(v, election_id, voter_address, weight) ==
  LET voter_weight == v[<<election_id, voter_address>>].weight
      voter_has_voted == v[<<election_id, voter_address>>].has_voted
  IN IF voter_has_voted THEN "VoterHasAlreadyVoted"
     ELSE IF voter_weight < weight THEN "VoterHasNotSoMuchWeight"
     ELSE "Ok"

\* check_if_registration_needed that creates the record in every election
check_if_registration_needed_always_lazy(v, election_id, voter_address) ==
  IF ~is_voter_registered(v, election_id, voter_address)
  THEN [result |-> "Ok", voters |-> register_voter(v, voter_address, election_id)]
  ELSE [result |-> "Ok", voters |-> v]

\* check_if_registration_needed that requires a record in every election
check_if_registration_needed_strict(v, election_id, voter_address) ==
  [result |-> check_voter_registered(v, election_id, voter_address), voters |-> v]

\* Returns the Result and the voters mapping it leaves.
check_if_registration_needed(v, election_id, voter_address) ==
  IF elections[election_id].required_registration
  THEN [result |-> check_voter_registered(v, election_id, voter_address), voters |-> v]
  ELSE IF ~is_voter_registered(v, election_id, voter_address)
       THEN [result |-> "Ok", voters |-> register_voter(v, voter_address, election_id)]
       ELSE [result |-> "Ok", voters |-> v]

\* insert_proposal that files every proposal under election 1
insert_proposal_first_election(st, election_id, proposal, proposal_id) ==
  [vote_proposals |-> Insert(st.vote_proposals, <<1, proposal_id + 1>>, 0),
   proposals_ids |-> Insert(st.proposals_ids, <<1, proposal>>, proposal_id + 1)]

\* insert_proposal is called with the 0-based list position as proposal_id
insert_proposal(st, election_id, proposal, proposal_id) ==
  [vote_proposals |-> Insert(st.vote_proposals, <<election_id, proposal_id + 1>>, 0),
   proposals_ids |-> Insert(st.proposals_ids, <<election_id, proposal>>, proposal_id + 1)]

\* the loop  for i in 0..proposals.len()  of insert_election, from position i on
RECURSIVE insert_proposals_from(_, _, _, _)
insert_proposals_from(st, election_id, proposals, i) ==
  IF i >= Len(proposals) THEN st
  ELSE insert_proposals_from(insert_proposal(st, election_id, proposals[i + 1], i),
                             election_id, proposals, i + 1)

\* ---------------------------------------------------------------- messages
\* Each message is an operator that gives the Result and what the message
\* wrote, and an action that applies it and records the call.

\* the two checks of create_election in the other order
create_election_run_list_first(caller, name, required_registration, proposals) ==
  IF check_sufficient_proposals(proposals) # "Ok"
  THEN check_sufficient_proposals(proposals)
  ELSE IF check_double_election(name) # "Ok" THEN check_double_election(name)
  ELSE "Ok"

create_election_run(caller, name, required_registration, proposals) ==
  IF check_double_election(name) # "Ok" THEN check_double_election(name)
  ELSE IF check_sufficient_proposals(proposals) # "Ok"
       THEN check_sufficient_proposals(proposals)
  ELSE "Ok"

insert_election(name, election_id, owner, required_registration, proposals) ==
  LET st == insert_proposals_from(
              [vote_proposals |-> vote_proposals, proposals_ids |-> proposals_ids],
              election_id, proposals, 0)
  IN /\ elections' = Insert(elections, election_id,
                            [owner |-> owner,
                             required_registration |-> required_registration,
                             registration_state |-> "RegistrationClosed",
                             election_state |-> "ElectionClosed"])
     /\ elections_ids' = Insert(elections_ids, name, election_id)
     /\ elections_list' = Append(elections_list, name)
     /\ vote_proposals' = st.vote_proposals
     /\ proposals_ids' = st.proposals_ids
     /\ proposals_list' = Insert(proposals_list, election_id, proposals)

\* create_election that does not count the election
create_election_uncounted(caller, name, required_registration, proposals) ==
  LET res == create_election_run(caller, name, required_registration, proposals) IN
  /\ IF res = "Ok"
     THEN /\ insert_election(name, election_nonce, caller, required_registration, proposals)
          /\ election_nonce' = election_nonce + 1
          /\ election_count' = election_count
          /\ UNCHANGED voters
     ELSE UNCHANGED storage
  /\ Called("create_election",
            [NoArgs EXCEPT !.caller = caller, !.name = name,
                           !.required_registration = required_registration,
                           !.proposals = proposals], res)

\* create_election that does not advance election_nonce
create_election_stale_nonce(caller, name, required_registration, proposals) ==
  LET res == create_election_run(caller, name, required_registration, proposals) IN
  /\ IF res = "Ok"
     THEN /\ insert_election(name, election_nonce, caller, required_registration, proposals)
          /\ election_nonce' = election_nonce
          /\ election_count' = election_count + 1
          /\ UNCHANGED voters
     ELSE UNCHANGED storage
  /\ Called("create_election",
            [NoArgs EXCEPT !.caller = caller, !.name = name,
                           !.required_registration = required_registration,
                           !.proposals = proposals], res)

create_election(caller, name, required_registration, proposals) ==
  LET res == create_election_run(caller, name, required_registration, proposals) IN
  /\ IF res = "Ok"
     THEN /\ insert_election(name, election_nonce, caller, required_registration, proposals)
          /\ election_nonce' = election_nonce + 1
          /\ election_count' = election_count + 1
          /\ UNCHANGED voters
     ELSE UNCHANGED storage
  /\ Called("create_election",
            [NoArgs EXCEPT !.caller = caller, !.name = name,
                           !.required_registration = required_registration,
                           !.proposals = proposals], res)

\* _vote that counts one vote whatever the weight
_vote_counts_one(v, election_id, proposal, voter_address, weight) ==
  LET proposal_id == proposals_ids[<<election_id, proposal>>] IN
  [vote_proposals |-> Insert(vote_proposals, <<election_id, proposal_id>>,
                             vote_proposals[<<election_id, proposal_id>>] + 1),
   voters |-> subtract_weight(v, election_id, voter_address, weight)]

_vote(v, election_id, proposal, voter_address, weight) ==
  LET proposal_id == proposals_ids[<<election_id, proposal>>]
      vote_proposal == vote_proposals[<<election_id, proposal_id>>]
  IN [vote_proposals |-> Insert(vote_proposals, <<election_id, proposal_id>>,
                                vote_proposal + weight),
      voters |-> subtract_weight(v, election_id, voter_address, weight)]

\* vote with check_proposal_valid ahead of the two checks on the voter
vote_run_proposal_first(caller, election_id, proposal, weight) ==
  IF check_id_existence(election_id) # "Ok"
  THEN [result |-> check_id_existence(election_id),
        voters |-> voters, vote_proposals |-> vote_proposals]
  ELSE IF check_election_open(election_id) # "Ok"
  THEN [result |-> check_election_open(election_id),
        voters |-> voters, vote_proposals |-> vote_proposals]
  ELSE IF check_proposal_valid(election_id, proposal) # "Ok"
  THEN [result |-> check_proposal_valid(election_id, proposal),
        voters |-> voters, vote_proposals |-> vote_proposals]
  ELSE LET reg == check_if_registration_needed(voters, election_id, caller) IN
  IF reg.result # "Ok"
  THEN [result |-> reg.result, voters |-> reg.voters, vote_proposals |-> vote_proposals]
  ELSE IF check_voter_can_vote(reg.voters, election_id, caller, weight) # "Ok"
  THEN [result |-> check_voter_can_vote(reg.voters, election_id, caller, weight),
        voters |-> reg.voters, vote_proposals |-> vote_proposals]
  ELSE LET done == _vote(reg.voters, election_id, proposal, caller, weight) IN
       [result |-> "Ok", voters |-> done.voters, vote_proposals |-> done.vote_proposals]

vote_run(caller, election_id, proposal, weight) ==
  IF check_id_existence(election_id) # "Ok"
  THEN [result |-> check_id_existence(election_id),
        voters |-> voters, vote_proposals |-> vote_proposals]
  ELSE IF check_election_open(election_id) # "Ok"
  THEN [result |-> check_election_open(election_id),
        voters |-> voters, vote_proposals |-> vote_proposals]
  ELSE LET reg == check_if_registration_needed(voters, election_id, caller) IN
  IF reg.result # "Ok"
  THEN [result |-> reg.result, voters |-> reg.voters, vote_proposals |-> vote_proposals]
  ELSE IF check_voter_can_vote(reg.voters, election_id, caller, weight) # "Ok"
  THEN [result |-> check_voter_can_vote(reg.voters, election_id, caller, weight),
        voters |-> reg.voters, vote_proposals |-> vote_proposals]
  ELSE IF check_proposal_valid(election_id, proposal) # "Ok"
  THEN [result |-> check_proposal_valid(election_id, proposal),
        voters |-> reg.voters, vote_proposals |-> vote_proposals]
  ELSE LET done == _vote(reg.voters, election_id, proposal, caller, weight) IN
       [result |-> "Ok", voters |-> done.voters, vote_proposals |-> done.vote_proposals]

vote(caller, election_id, proposal, weight) ==
  LET run == vote_run(caller, election_id, proposal, weight) IN
  /\ voters' = run.voters
  /\ vote_proposals' = run.vote_proposals
  /\ UNCHANGED <<elections, elections_list, elections_ids, proposals_ids,
                 proposals_list, election_nonce, election_count>>
  /\ Called("vote",
            [NoArgs EXCEPT !.caller = caller, !.election_id = election_id,
                           !.proposal = proposal, !.weight = weight], run.result)

\* register with the record test ahead of check_registration_open
register_run_record_first(election_id, voter) ==
  IF check_id_existence(election_id) # "Ok"
  THEN [result |-> check_id_existence(election_id), voters |-> voters]
  ELSE IF is_voter_registered(voters, election_id, voter)
  THEN [result |-> "VoterAlreadyRegistered", voters |-> voters]
  ELSE IF check_registration_open(election_id) # "Ok"
  THEN [result |-> check_registration_open(election_id), voters |-> voters]
  ELSE [result |-> "Ok", voters |-> register_voter(voters, voter, election_id)]

register_run(election_id, voter) ==
  IF check_id_existence(election_id) # "Ok"
  THEN [result |-> check_id_existence(election_id), voters |-> voters]
  ELSE IF check_registration_open(election_id) # "Ok"
  THEN [result |-> check_registration_open(election_id), voters |-> voters]
  ELSE IF is_voter_registered(voters, election_id, voter)
  THEN [result |-> "VoterAlreadyRegistered", voters |-> voters]
  ELSE [result |-> "Ok", voters |-> register_voter(voters, voter, election_id)]

register(caller, election_id, voter) ==
  LET run == register_run(election_id, voter) IN
  /\ voters' = run.voters
  /\ UNCHANGED <<elections, elections_list, elections_ids, vote_proposals,
                 proposals_ids, proposals_list, election_nonce, election_count>>
  /\ Called("register",
            [NoArgs EXCEPT !.caller = caller, !.election_id = election_id,
                           !.account = voter], run.result)

register_me(caller, election_id) ==
  LET run == register_run(election_id, caller) IN
  /\ voters' = run.voters
  /\ UNCHANGED <<elections, elections_list, elections_ids, vote_proposals,
                 proposals_ids, proposals_list, election_nonce, election_count>>
  /\ Called("register_me",
            [NoArgs EXCEPT !.caller = caller, !.election_id = election_id], run.result)

\* delegate_vote with the check_election_open of vote
delegate_vote_run_election_gated(delegator, election_id, delegate_address, weight) ==
  IF check_id_existence(election_id) # "Ok"
  THEN [result |-> check_id_existence(election_id), voters |-> voters]
  ELSE IF check_election_open(election_id) # "Ok"
  THEN [result |-> check_election_open(election_id), voters |-> voters]
  ELSE LET reg1 == check_if_registration_needed(voters, election_id, delegator) IN
  IF reg1.result # "Ok" THEN reg1
  ELSE LET reg2 == check_if_registration_needed(reg1.voters, election_id, delegate_address) IN
  IF reg2.result # "Ok" THEN reg2
  ELSE IF check_voter_can_vote(reg2.voters, election_id, delegator, weight) # "Ok"
  THEN [result |-> check_voter_can_vote(reg2.voters, election_id, delegator, weight),
        voters |-> reg2.voters]
  ELSE [result |-> "Ok",
        voters |-> delegate(reg2.voters, election_id, delegate_address, delegator, weight)]

delegate_vote_run(delegator, election_id, delegate_address, weight) ==
  IF check_id_existence(election_id) # "Ok"
  THEN [result |-> check_id_existence(election_id), voters |-> voters]
  ELSE LET reg1 == check_if_registration_needed(voters, election_id, delegator) IN
  IF reg1.result # "Ok" THEN reg1
  ELSE LET reg2 == check_if_registration_needed(reg1.voters, election_id, delegate_address) IN
  IF reg2.result # "Ok" THEN reg2
  ELSE IF check_voter_can_vote(reg2.voters, election_id, delegator, weight) # "Ok"
  THEN [result |-> check_voter_can_vote(reg2.voters, election_id, delegator, weight),
        voters |-> reg2.voters]
  ELSE [result |-> "Ok",
        voters |-> delegate(reg2.voters, election_id, delegate_address, delegator, weight)]

delegate_vote(caller, election_id, delegate_address, weight) ==
  LET run == delegate_vote_run(caller, election_id, delegate_address, weight) IN
  /\ voters' = run.voters
  /\ UNCHANGED <<elections, elections_list, elections_ids, vote_proposals,
                 proposals_ids, proposals_list, election_nonce, election_count>>
  /\ Called("delegate_vote",
            [NoArgs EXCEPT !.caller = caller, !.election_id = election_id,
                           !.account = delegate_address, !.weight = weight],
            run.result)

\* owner_gate with the two checks in the other order
owner_gate_owner_first(caller, election_id) ==
  IF only_owner(election_id, caller) # "Ok" THEN only_owner(election_id, caller)
  ELSE check_id_existence(election_id)

\* The guard shared by the five owner-restricted messages.
owner_gate(caller, election_id) ==
  IF check_id_existence(election_id) # "Ok" THEN check_id_existence(election_id)
  ELSE only_owner(election_id, caller)

\* An owner-restricted message: op with the election record it writes on Ok.
owner_message(op, caller, election_id, account, election) ==
  LET res == owner_gate(caller, election_id) IN
  /\ elections' = IF res = "Ok" THEN Insert(elections, election_id, election)
                  ELSE elections
  /\ UNCHANGED <<elections_list, elections_ids, vote_proposals, proposals_ids,
                 proposals_list, voters, election_nonce, election_count>>
  /\ Called(op, [NoArgs EXCEPT !.caller = caller, !.election_id = election_id,
                               !.account = account], res)

open_registration(caller, election_id) ==
  owner_message("open_registration", caller, election_id, DefaultAccount,
    [GetOr(elections, election_id, DefaultElection)
       EXCEPT !.registration_state = "RegistrationOpen"])

close_registration(caller, election_id) ==
  owner_message("close_registration", caller, election_id, DefaultAccount,
    [GetOr(elections, election_id, DefaultElection)
       EXCEPT !.registration_state = "RegistrationClosed"])

\* open_election that opens the registration too
open_election_opens_both(caller, election_id) ==
  owner_message("open_election", caller, election_id, DefaultAccount,
    [GetOr(elections, election_id, DefaultElection)
       EXCEPT !.election_state = "ElectionOpen",
              !.registration_state = "RegistrationOpen"])

open_election(caller, election_id) ==
  owner_message("open_election", caller, election_id, DefaultAccount,
    [GetOr(elections, election_id, DefaultElection)
       EXCEPT !.election_state = "ElectionOpen"])

close_election(caller, election_id) ==
  owner_message("close_election", caller, election_id, DefaultAccount,
    [GetOr(elections, election_id, DefaultElection)
       EXCEPT !.election_state = "ElectionClosed"])

\* change_ownership that writes the record back with the owner it had
change_ownership_keeps_owner(caller, election_id, new_owner) ==
  owner_message("change_ownership", caller, election_id, new_owner,
    GetOr(elections, election_id, DefaultElection))

change_ownership(caller, election_id, new_owner) ==
  owner_message("change_ownership", caller, election_id, new_owner,
    [GetOr(elections, election_id, DefaultElection) EXCEPT !.owner = new_owner])

\* ------------------------------------------------------------------- panics
\* Where a message would abort instead of returning: an unwrap() of a
\* Mapping::get that is None, and the u128 subtraction of subtract_weight
\* when weight exceeds voter_weight.  Each operator follows the message to the
\* point of the unwrap, with the voters mapping v as it stands there.
subtract_weight_panics(v, election_id, voter, weight) ==
  \/ <<election_id, voter>> \notin DOMAIN v
  \/ v[<<election_id, voter>>].weight < weight

delegate_panics(v, election_id, delegate_address, delegator_address, weight) ==
  \/ <<election_id, delegate_address>> \notin DOMAIN v
  \/ subtract_weight_panics(
       Insert(v, <<election_id, delegate_address>>,
              [weight |-> v[<<election_id, delegate_address>>].weight + weight,
               has_voted |-> FALSE]),
       election_id, delegator_address, weight)

check_voter_can_vote_panics(v, election_id, voter_address) ==
  <<election_id, voter_address>> \notin DOMAIN v

check_if_registration_needed_panics(election_id) ==
  election_id \notin DOMAIN elections

_vote_panics(v, election_id, proposal, voter_address, weight) ==
  \/ <<election_id, proposal>> \notin DOMAIN proposals_ids
  \/ <<election_id, proposals_ids[<<election_id, proposal>>]>> \notin DOMAIN vote_proposals
  \/ subtract_weight_panics(v, election_id, voter_address, weight)

vote_panics(caller, election_id, proposal, weight) ==
  IF check_id_existence(election_id) # "Ok" THEN FALSE
  ELSE IF check_election_open(election_id) # "Ok" THEN FALSE
  ELSE IF check_if_registration_needed_panics(election_id) THEN TRUE
  ELSE LET reg == check_if_registration_needed(voters, election_id, caller) IN
  IF reg.result # "Ok" THEN FALSE
  ELSE IF check_voter_can_vote_panics(reg.voters, election_id, caller) THEN TRUE
  ELSE IF check_voter_can_vote(reg.voters, election_id, caller, weight) # "Ok" THEN FALSE
  ELSE IF check_proposal_valid(election_id, proposal) # "Ok" THEN FALSE
  ELSE _vote_panics(reg.voters, election_id, proposal, caller, weight)

delegate_vote_panics(delegator, election_id, delegate_address, weight) ==
  IF check_id_existence(election_id) # "Ok" THEN FALSE
  ELSE IF check_if_registration_needed_panics(election_id) THEN TRUE
  ELSE LET reg1 == check_if_registration_needed(voters, election_id, delegator) IN
  IF reg1.result # "Ok" THEN FALSE
  ELSE LET reg2 == check_if_registration_needed(reg1.voters, election_id, delegate_address) IN
  IF reg2.result # "Ok" THEN FALSE
  ELSE IF check_voter_can_vote_panics(reg2.voters, election_id, delegator) THEN TRUE
  ELSE IF check_voter_can_vote(reg2.voters, election_id, delegator, weight) # "Ok" THEN FALSE
  ELSE delegate_panics(reg2.voters, election_id, delegate_address, delegator, weight)

\* the unwrap of self.elections.get(election_id) after the two checks
owner_message_panics(caller, election_id) ==
  owner_gate(caller, election_id) = "Ok" /\ election_id \notin DOMAIN elections

\* ------------------------------------------------------------------ queries
\* The &self messages read the storage and change nothing: they are operators
\* over the state.  Vec<u8>::new() is "", a pair is a 2-tuple.

\* get_votes_proposal: both lookups fall back to the default 0
get_votes_proposal(election_id, proposal) ==
  LET proposal_id == GetOr(proposals_ids, <<election_id, proposal>>, 0) IN
  GetOr(vote_proposals, <<election_id, proposal_id>>, 0)

\* get_result_election: one push per element of proposals_list, in its order
get_result_election(election_id) ==
  LET proposals == GetOr(proposals_list, election_id, <<>>) IN
  [i \in 1..Len(proposals) |->
     <<proposals[i], get_votes_proposal(election_id, proposals[i])>>]

\* the loop of get_winner with >= in place of >
RECURSIVE get_winner_from_last_tie(_, _, _, _, _)
get_winner_from_last_tie(election_id, proposals, i, winner, max_votes) ==
  IF i > Len(proposals) THEN <<winner, max_votes>>
  ELSE LET vote_proposal == get_votes_proposal(election_id, proposals[i]) IN
       IF vote_proposal >= max_votes
       THEN get_winner_from_last_tie(election_id, proposals, i + 1, proposals[i], vote_proposal)
       ELSE get_winner_from_last_tie(election_id, proposals, i + 1, winner, max_votes)

\* the loop of get_winner from list position i on, with the winner and the
\* max_votes held so far
RECURSIVE get_winner_from(_, _, _, _, _)
get_winner_from(election_id, proposals, i, winner, max_votes) ==
  IF i > Len(proposals) THEN <<winner, max_votes>>
  ELSE LET vote_proposal == get_votes_proposal(election_id, proposals[i]) IN
       IF vote_proposal > max_votes
       THEN get_winner_from(election_id, proposals, i + 1, proposals[i], vote_proposal)
       ELSE get_winner_from(election_id, proposals, i + 1, winner, max_votes)

get_winner(election_id) ==
  get_winner_from(election_id, GetOr(proposals_list, election_id, <<>>), 1, "", 0)

get_voter_weigth(election_id, voter) ==
  GetOr(voters, <<election_id, voter>>, [weight |-> 0, has_voted |-> FALSE]).weight

has_voter_voted(election_id, voter) ==
  GetOr(voters, <<election_id, voter>>, [weight |-> 0, has_voted |-> FALSE]).has_voted

\* ----------------------------------------------------------- specification
\* new(): initialize_contract leaves every Mapping and the Vec empty.
Init ==
  /\ elections = EmptyMapping
  /\ elections_list = <<>>
  /\ elections_ids = EmptyMapping
  /\ vote_proposals = EmptyMapping
  /\ proposals_ids = EmptyMapping
  /\ proposals_list = EmptyMapping
  /\ voters = EmptyMapping
  /\ election_nonce = 1
  /\ election_count = 0
  /\ call = [op |-> "new", caller |-> DefaultAccount, election_id |-> 0,
             account |-> DefaultAccount, proposal |-> "", weight |-> 0, name |-> "",
             required_registration |-> FALSE, proposals |-> <<>>,
             result |-> "Ok", emitted |-> 0]
  /\ prev_voters = EmptyMapping
  /\ spent = {}
  /\ cast = EmptyMapping

\* One message, called by one of `accounts` with arguments from the sets given.
Step(names, accounts, weights, lists) ==
  \/ \E c \in accounts, n \in names, r \in BOOLEAN, p \in lists :
       create_election(c, n, r, p)
  \/ \E c \in accounts, id \in IdsFor(names), l \in Labels, w \in weights :
       vote(c, id, l, w)
  \/ \E c \in accounts, id \in IdsFor(names), a \in accounts : register(c, id, a)
  \/ \E c \in accounts, id \in IdsFor(names) : register_me(c, id)
  \/ \E c \in accounts, id \in IdsFor(names), d \in accounts, w \in weights :
       delegate_vote(c, id, d, w)
  \/ \E c \in accounts, id \in IdsFor(names) : open_registration(c, id)
  \/ \E c \in accounts, id \in IdsFor(names) : close_registration(c, id)
  \/ \E c \in accounts, id \in IdsFor(names) : open_election(c, id)
  \/ \E c \in accounts, id \in IdsFor(names) : close_election(c, id)
  \/ \E c \in accounts, id \in IdsFor(names), n \in accounts : change_ownership(c, id, n)

\* One election, two callers, every weight: the voting and lifecycle claims.
Next == Step({"firstelection"}, Accounts, Weights, ProposalLists)

Spec == Init /\ [][Next]_vars

\* Two elections, one caller, weight 1: the claims about the registry.
NextElections == Step(Names, {"alice"}, {1}, ProposalLists)

\* One election, one caller, weight 1, proposal lists with and without a
\* repeated label: the claims about the proposals of an election.
NextProposals ==
  Step({"firstelection"}, {"alice"}, {1},
       {<<"firstproposal", "firstproposal">>, <<"firstproposal", "secondproposal">>})

SpecProposals == Init /\ [][NextProposals]_vars

SpecElections == Init /\ [][NextElections]_vars

\* ================================================================== claims
\* A step of an action formula A is a step the message A takes; the primed
\* variables are the storage the message leaves and call' its return value.

\* the sum of the weights of the records of election_id among accounts
RECURSIVE WeightOver(_, _, _)
WeightOver(v, election_id, accounts) ==
  IF accounts = {} THEN 0
  ELSE LET a == CHOOSE x \in accounts : TRUE IN
       v[<<election_id, a>>].weight + WeightOver(v, election_id, accounts \ {a})

RecordsOf(v, election_id) == {a \in Accounts : <<election_id, a>> \in DOMAIN v}

WeightSum(v, election_id) == WeightOver(v, election_id, RecordsOf(v, election_id))

Consumed == [weight |-> 0, has_voted |-> TRUE]

SpendMessages == {"vote", "delegate_vote"}

\* the gates ahead of check_voter_can_vote pass for the message of call',
\* whose caller has a record
OtherGatesPass ==
  IF call'.op = "vote"
  THEN elections[call'.election_id].election_state = "ElectionOpen"
  ELSE \/ ~elections[call'.election_id].required_registration
       \/ <<call'.election_id, call'.account>> \in DOMAIN voters

SpendRejected ==
  /\ call'.result # "Ok"
  /\ OtherGatesPass => call'.result = "VoterHasAlreadyVoted"

\* ---- C1 as claimed: once a record has been consumed, every later vote or
\* outgoing delegate_vote of that principal for that election fails, with
\* VoterHasAlreadyVoted when the other gates pass.
\* Violated by the code: delegate (line 432) writes consumed = false into the
\* delegate's record, which then holds weight it can spend.
C1_OnceConsumedNeverSpends ==
  [][(call'.op \in SpendMessages /\ <<call'.election_id, call'.caller>> \in spent)
       => SpendRejected]_vars

\* ---- C1 as amended: while a record has consumed == true, every vote or
\* outgoing delegate_vote of that principal for that election fails, with
\* VoterHasAlreadyVoted when the other gates pass; and the flag stays true
\* under every message except a successful delegate_vote of another principal
\* that names this one as delegate.
C1_ConsumedCannotSpend ==
  [][/\ (/\ call'.op \in SpendMessages
         /\ <<call'.election_id, call'.caller>> \in DOMAIN voters
         /\ voters[<<call'.election_id, call'.caller>>].has_voted)
        => SpendRejected
     /\ \A k \in DOMAIN voters :
          (voters[k].has_voted /\ ~voters'[k].has_voted)
          => (/\ call'.op = "delegate_vote"
              /\ call'.result = "Ok"
              /\ call'.election_id = k[1]
              /\ call'.account = k[2]
              /\ call'.caller # k[2])]_vars

\* a vote of a principal whose record is consumed was rejected
C1_Witness ==
  /\ call.op = "vote"
  /\ call.result = "VoterHasAlreadyVoted"
  /\ <<call.election_id, call.caller>> \in DOMAIN voters
  /\ voters[<<call.election_id, call.caller>>] = Consumed

\* ---- C2: a message that returns an error leaves the stored state as it was.
\* Violated by the code: check_if_registration_needed (lines 566-568) inserts
\* the voter record before check_voter_can_vote or check_proposal_valid fails.
C2_FailureAtomicity == [][call'.result # "Ok" => UNCHANGED storage]_vars

\* ---- C3 as claimed: a delegate_vote call, successful or failed, leaves the
\* sum of the weights of the records of every election unchanged.
\* Violated by the code: a record created on demand adds its weight 1.
C3_DelegationKeepsSum ==
  [][call'.op = "delegate_vote"
       => \A id \in IdsFor(Names) : WeightSum(voters', id) = WeightSum(voters, id)]_vars

\* ---- C3 as amended: a delegate_vote call, successful or failed, raises the
\* sum of the weights of the records of an election by the number of records
\* of that election it creates (each with weight 1), so it leaves the sum
\* unchanged when it creates none; it never removes a record.
C3_DelegationMovesWeight ==
  [][call'.op = "delegate_vote"
       => \A id \in IdsFor(Names) :
            /\ RecordsOf(voters, id) \subseteq RecordsOf(voters', id)
            /\ WeightSum(voters', id) =
                 WeightSum(voters, id)
                 + Cardinality(RecordsOf(voters', id) \ RecordsOf(voters, id))]_vars

\* a successful delegation of weight 1 between two existing records
C3_Witness ==
  /\ call.op = "delegate_vote"
  /\ call.result = "Ok"
  /\ call.weight = 1
  /\ call.caller # call.account
  /\ DOMAIN prev_voters = DOMAIN voters
  /\ prev_voters[<<call.election_id, call.account>>].weight + 1
       = voters[<<call.election_id, call.account>>].weight

DelegateIsConsumed ==
  /\ call'.op = "delegate_vote"
  /\ <<call'.election_id, call'.account>> \in DOMAIN voters
  /\ voters[<<call'.election_id, call'.account>>].has_voted

\* ---- C4 as claimed: a delegate_vote whose delegate has a consumed record
\* returns an error and leaves that record (weight 0, consumed true).
\* Violated by the code: only the delegator goes through check_voter_can_vote.
C4_DelegationToConsumedRejected ==
  [][DelegateIsConsumed
       => (/\ call'.result # "Ok"
           /\ voters'[<<call'.election_id, call'.account>>] = Consumed)]_vars

DelegatorCanSpend ==
  LET id == call'.election_id
      c == call'.caller
  IN /\ c # call'.account
     /\ IF <<id, c>> \in DOMAIN voters
        THEN ~voters[<<id, c>>].has_voted /\ call'.weight <= voters[<<id, c>>].weight
        ELSE ~elections[id].required_registration /\ call'.weight <= 1

\* ---- C4 as amended: a delegate_vote whose delegate has a consumed record is
\* decided by the delegator alone.  When the delegator is another principal
\* that passes the registration gate, is not consumed and holds at least the
\* weight, the call returns Ok and the delegate's record becomes (weight,
\* consumed false); otherwise it returns the delegator's error and the
\* delegate's record stays as it was.
C4_DelegationToConsumedResets ==
  [][DelegateIsConsumed
       => LET d == <<call'.election_id, call'.account>> IN
          IF DelegatorCanSpend
          THEN /\ call'.result = "Ok"
               /\ voters'[d] = [weight |-> voters[d].weight + call'.weight,
                                has_voted |-> FALSE]
          ELSE /\ call'.result \in {"VoterNotRegistred", "VoterHasAlreadyVoted",
                                    "VoterHasNotSoMuchWeight"}
               /\ voters'[d] = voters[d]]_vars

\* a delegation to a consumed delegate succeeded and reset its flag
C4_Witness ==
  /\ call.op = "delegate_vote"
  /\ call.result = "Ok"
  /\ <<call.election_id, call.account>> \in DOMAIN prev_voters
  /\ prev_voters[<<call.election_id, call.account>>] = Consumed
  /\ call.weight > 0
  /\ voters[<<call.election_id, call.account>>] =
       [weight |-> call.weight, has_voted |-> FALSE]

\* ---- C5: in every reachable state a voter record with consumed == true
\* has weight 0.
C5_ConsumedHasNoWeight ==
  \A k \in DOMAIN voters : voters[k].has_voted => voters[k].weight = 0

\* a vote or a delegation has consumed a record
C5_Witness ==
  /\ call.op \in {"vote", "delegate_vote"}
  /\ call.result = "Ok"
  /\ \E k \in DOMAIN voters :
       /\ voters[k].has_voted
       /\ k \in DOMAIN prev_voters
       /\ ~prev_voters[k].has_voted

WeightBefore(id, c) ==
  IF <<id, c>> \in DOMAIN voters THEN voters[<<id, c>>].weight ELSE 1

\* ---- C6: a successful vote(id, label, w) adds w to the tally of the
\* proposal that label designates in election id and to no other tally, takes
\* w from the caller's weight (the weight of its record, or the weight 1 of the
\* record created on demand when it had none), sets consumed exactly when the
\* remaining weight is 0, and touches no other voter record.
C6_VoteEffects ==
  [][(call'.op = "vote" /\ call'.result = "Ok")
       => LET id == call'.election_id
              c == call'.caller
              w == call'.weight
              p == <<id, proposals_ids[<<id, call'.proposal>>]>>
          IN /\ DOMAIN vote_proposals' = DOMAIN vote_proposals
             /\ vote_proposals'[p] = vote_proposals[p] + w
             /\ \A q \in DOMAIN vote_proposals \ {p} :
                  vote_proposals'[q] = vote_proposals[q]
             /\ DOMAIN voters' = DOMAIN voters \cup {<<id, c>>}
             /\ voters'[<<id, c>>].weight = WeightBefore(id, c) - w
             /\ voters'[<<id, c>>].has_voted = (WeightBefore(id, c) - w = 0)
             /\ \A k \in DOMAIN voters \ {<<id, c>>} : voters'[k] = voters[k]]_vars

\* a vote of weight 1 by a principal that held weight 2: one unit remains and
\* the record is not consumed
C6_Witness ==
  /\ call.op = "vote"
  /\ call.result = "Ok"
  /\ call.weight = 1
  /\ <<call.election_id, call.caller>> \in DOMAIN prev_voters
  /\ prev_voters[<<call.election_id, call.caller>>].weight = 2
  /\ voters[<<call.election_id, call.caller>>] = [weight |-> 1, has_voted |-> FALSE]

VoteExpected ==
  LET id == call'.election_id
      c == call'.caller
  IN IF id \notin DOMAIN elections THEN "ElectionNotValid"
     ELSE IF elections[id].election_state # "ElectionOpen" THEN "ElectionClosed"
     ELSE IF elections[id].required_registration /\ <<id, c>> \notin DOMAIN voters
          THEN "VoterNotRegistred"
     ELSE IF <<id, c>> \in DOMAIN voters /\ voters[<<id, c>>].has_voted
          THEN "VoterHasAlreadyVoted"
     ELSE IF call'.weight > WeightBefore(id, c) THEN "VoterHasNotSoMuchWeight"
     ELSE IF <<id, call'.proposal>> \notin DOMAIN proposals_ids THEN "InvalidProposal"
     ELSE "Ok"

\* ---- C7: vote(id, label, w) returns the error of the first failing
\* condition in this order: unknown id, election not open, caller unregistered
\* in a registration-required election, caller consumed, w above the caller's
\* weight, label not a proposal of the election; and Ok when none fails.
C7_VoteErrorPrecedence ==
  [][call'.op = "vote" => call'.result = VoteExpected]_vars

\* a vote that fails two conditions at once, too much weight and an unknown
\* label, and reports the earlier one
C7_Witness ==
  /\ call.op = "vote"
  /\ call.result = "VoterHasNotSoMuchWeight"
  /\ call.proposal = "inexistentproposal"
  /\ call.election_id \in DOMAIN elections
  /\ elections[call.election_id].election_state = "ElectionOpen"

IdMessages ==
  {"vote", "register", "register_me", "delegate_vote", "open_registration",
   "close_registration", "open_election", "close_election", "change_ownership"}

\* ---- C8: each of the nine messages that take an election id, called with an
\* id that holds no election, returns ElectionNotValid and changes no state.
C8_UnknownIdRejected ==
  [][(call'.op \in IdMessages /\ call'.election_id \notin DOMAIN elections)
       => (call'.result = "ElectionNotValid" /\ UNCHANGED storage)]_vars

\* an election exists and a delegate_vote named an id that holds none
C8_Witness ==
  /\ DOMAIN elections = {1}
  /\ call.op = "delegate_vote"
  /\ call.election_id = 2
  /\ call.result = "ElectionNotValid"

OwnerMessages ==
  {"open_registration", "close_registration", "open_election", "close_election",
   "change_ownership"}

\* ---- C9: for an existing election, each of the five owner-restricted
\* messages called by an account that is not its owner returns OnlyOwner and
\* leaves the election record (and the rest of the storage) unchanged.
C9_NonOwnerRejected ==
  [][(/\ call'.op \in OwnerMessages
      /\ call'.election_id \in DOMAIN elections
      /\ call'.caller # elections[call'.election_id].owner)
       => (/\ call'.result = "OnlyOwner"
           /\ elections'[call'.election_id] = elections[call'.election_id]
           /\ UNCHANGED storage)]_vars

\* a non-owner's close_election was rejected while both flags were Open
C9_Witness ==
  /\ call.op = "close_election"
  /\ call.result = "OnlyOwner"
  /\ 1 \in DOMAIN elections
  /\ call.election_id = 1
  /\ call.caller # elections[1].owner
  /\ elections[1].election_state = "ElectionOpen"
  /\ elections[1].registration_state = "RegistrationOpen"

\* ---- C10: the k-th successful create_election gets id k (the first gets 1,
\* election_count rises by one per success and equals the last id); a name
\* already used returns ElectionNotValid and a fresh name with an empty
\* proposal list returns InsufficientProposals, both leaving election_count and
\* every election unchanged.
C10_IdAllocation ==
  [][call'.op = "create_election"
       => IF call'.name \in DOMAIN elections_ids
          THEN call'.result = "ElectionNotValid" /\ UNCHANGED storage
          ELSE IF call'.proposals = <<>>
          THEN call'.result = "InsufficientProposals" /\ UNCHANGED storage
          ELSE LET k == election_count + 1 IN
               /\ call'.result = "Ok"
               /\ Cardinality(DOMAIN elections) = election_count
               /\ election_count' = k
               /\ DOMAIN elections' = DOMAIN elections \cup {k}
               /\ k \notin DOMAIN elections
               /\ elections_ids' = Insert(elections_ids, call'.name, k)
               /\ elections_list' = Append(elections_list, call'.name)
               /\ \A id \in DOMAIN elections : elections'[id] = elections[id]]_vars

\* the second successful creation got id 2
C10_Witness ==
  /\ call.op = "create_election"
  /\ call.result = "Ok"
  /\ election_count = 2
  /\ DOMAIN elections = {1, 2}
  /\ elections_ids[call.name] = 2

\* ---- C11: a successful delegate_vote(id, d, w) by a caller c other than d
\* adds w to d's weight and leaves d not consumed, takes w from c's weight and
\* sets c's consumed flag exactly when c's remaining weight is 0 (a record
\* created on demand counts with its weight 1); from fresh records in an
\* election without registration, delegating 1 leaves d = (2, false) and
\* c = (0, true).
C11_DelegateEffects ==
  [][(call'.op = "delegate_vote" /\ call'.result = "Ok" /\ call'.caller # call'.account)
       => LET id == call'.election_id
              c == call'.caller
              d == call'.account
              w == call'.weight
          IN /\ voters'[<<id, d>>] =
                  [weight |-> WeightBefore(id, d) + w, has_voted |-> FALSE]
             /\ voters'[<<id, c>>].weight = WeightBefore(id, c) - w
             /\ voters'[<<id, c>>].has_voted = (WeightBefore(id, c) - w = 0)
             /\ ((<<id, c>> \notin DOMAIN voters /\ <<id, d>> \notin DOMAIN voters /\ w = 1)
                  => (/\ voters'[<<id, d>>] = [weight |-> 2, has_voted |-> FALSE]
                      /\ voters'[<<id, c>>] = Consumed))]_vars

\* the delegation of the tests: from fresh records, 1 unit, d = (2, false) and
\* c = (0, true)
C11_Witness ==
  /\ call.op = "delegate_vote"
  /\ call.result = "Ok"
  /\ call.weight = 1
  /\ call.caller # call.account
  /\ prev_voters = EmptyMapping
  /\ voters[<<call.election_id, call.account>>] = [weight |-> 2, has_voted |-> FALSE]
  /\ voters[<<call.election_id, call.caller>>] = Consumed

\* the Result of delegate_vote as the registration gates and the delegator's
\* record decide it; neither lifecycle flag is read
DelegateExpected ==
  LET id == call'.election_id
      c == call'.caller
      d == call'.account
  IN IF id \notin DOMAIN elections THEN "ElectionNotValid"
     ELSE IF /\ elections[id].required_registration
             /\ (<<id, c>> \notin DOMAIN voters \/ <<id, d>> \notin DOMAIN voters)
          THEN "VoterNotRegistred"
     ELSE IF <<id, c>> \in DOMAIN voters /\ voters[<<id, c>>].has_voted
          THEN "VoterHasAlreadyVoted"
     ELSE IF call'.weight > WeightBefore(id, c) THEN "VoterHasNotSoMuchWeight"
     ELSE "Ok"

\* ---- C12: delegate_vote is not gated by the lifecycle flags and touches no
\* tally: for an existing election its Result is decided by the registration
\* requirement and the voter records alone, the same with either flag Open or
\* Closed, and after every call, successful or failed, every proposal tally
\* (and every election record) is as it was.
C12_DelegateIgnoresLifecycle ==
  [][call'.op = "delegate_vote"
       => (/\ call'.result = DelegateExpected
           /\ vote_proposals' = vote_proposals
           /\ elections' = elections)]_vars

\* a delegation that succeeded while both flags were Closed, after votes had
\* been counted
C12_Witness ==
  /\ call.op = "delegate_vote"
  /\ call.result = "Ok"
  /\ call.weight > 0
  /\ elections[call.election_id].election_state = "ElectionClosed"
  /\ elections[call.election_id].registration_state = "RegistrationClosed"
  /\ \E k \in DOMAIN vote_proposals : vote_proposals[k] > 0

RegisterMessages == {"register", "register_me"}

\* the message of call' is addressed to an existing election that requires
\* registration
RegistrationRequired ==
  /\ call'.election_id \in DOMAIN elections
  /\ elections[call'.election_id].required_registration

Unregistered(account) == <<call'.election_id, account>> \notin DOMAIN voters

\* the records a message creates in elections that require registration come
\* from a successful register or register_me made while registration is Open
OnlyRegistrationCreates ==
  \A k \in DOMAIN voters' \ DOMAIN voters :
    elections[k[1]].required_registration
    => (/\ call'.op \in RegisterMessages
        /\ call'.result = "Ok"
        /\ call'.election_id = k[1]
        /\ elections[k[1]].registration_state = "RegistrationOpen")

UnregisteredDelegationRejected ==
  (/\ RegistrationRequired
   /\ call'.op = "delegate_vote"
   /\ (Unregistered(call'.caller) \/ Unregistered(call'.account)))
  => (call'.result = "VoterNotRegistred" /\ voters' = voters)

\* ---- C13 as claimed: in an election that requires registration a voter
\* record comes into existence only by a successful register or register_me
\* made while its registration flag is Open; a vote of an unregistered caller
\* returns VoterNotRegistred, a delegate_vote returns VoterNotRegistred when
\* the caller or the delegate is unregistered, and neither creates a record.
\* Violated by the code: vote runs check_election_open first, so while the
\* election flag is Closed the unregistered caller gets ElectionClosed.
C13_RegistrationRequiredRecords ==
  [][/\ OnlyRegistrationCreates
     /\ UnregisteredDelegationRejected
     /\ (RegistrationRequired /\ call'.op = "vote" /\ Unregistered(call'.caller))
        => (call'.result = "VoterNotRegistred" /\ voters' = voters)]_vars

\* ---- C13 as amended: as claimed, except that the vote of an unregistered
\* caller returns VoterNotRegistred only while the election flag is Open and
\* ElectionClosed while it is Closed; it creates no record in either case.
C13_RegistrationRequiredRecordsOpen ==
  [][/\ OnlyRegistrationCreates
     /\ UnregisteredDelegationRejected
     /\ (RegistrationRequired /\ call'.op = "vote" /\ Unregistered(call'.caller))
        => (/\ call'.result =
                 IF elections[call'.election_id].election_state = "ElectionOpen"
                 THEN "VoterNotRegistred" ELSE "ElectionClosed"
            /\ voters' = voters)]_vars

\* a delegation by a registered caller to an unregistered delegate was
\* rejected in an election that requires registration
C13_Witness ==
  /\ call.op = "delegate_vote"
  /\ call.result = "VoterNotRegistred"
  /\ call.election_id \in DOMAIN elections
  /\ elections[call.election_id].required_registration
  /\ <<call.election_id, call.caller>> \in DOMAIN voters
  /\ <<call.election_id, call.account>> \notin DOMAIN voters

\* ---- C14: register(id, p) on an existing election returns
\* RegistrationClosed while the registration flag is Closed (whether or not p
\* has a record), VoterAlreadyRegistered when p has a record (a consumed one
\* too, which keeps weight 0), and otherwise creates the record (1, false) for
\* p and changes nothing else; register_me(id) is register(id, caller).
C14_RegisterOutcome ==
  [][(call'.op \in RegisterMessages /\ call'.election_id \in DOMAIN elections)
       => LET id == call'.election_id
              p == IF call'.op = "register" THEN call'.account ELSE call'.caller
          IN IF elections[id].registration_state # "RegistrationOpen"
             THEN call'.result = "RegistrationClosed" /\ UNCHANGED storage
             ELSE IF <<id, p>> \in DOMAIN voters
             THEN call'.result = "VoterAlreadyRegistered" /\ UNCHANGED storage
             ELSE /\ call'.result = "Ok"
                  /\ voters' = Insert(voters, <<id, p>>,
                                      [weight |-> 1, has_voted |-> FALSE])
                  /\ UNCHANGED <<elections, elections_list, elections_ids,
                                 vote_proposals, proposals_ids, proposals_list,
                                 election_nonce, election_count>>]_vars

\* a register_me of a consumed voter was rejected and the record stayed consumed
C14_Witness ==
  /\ call.op = "register_me"
  /\ call.result = "VoterAlreadyRegistered"
  /\ elections[call.election_id].registration_state = "RegistrationOpen"
  /\ voters[<<call.election_id, call.caller>>] = Consumed

\* the record a vote or delegate_vote of weight w leaves for `account` when it
\* created it on demand: (1, false) as created, then spent or credited
CreatedOnDemand(account) ==
  LET w == call'.weight
      gives == call'.op = "vote" \/ account = call'.caller
      gets == call'.op = "delegate_vote" /\ account = call'.account
      weight == 1 + (IF gets THEN w ELSE 0) - (IF gives THEN w ELSE 0)
  IN IF call'.result # "Ok" THEN [weight |-> 1, has_voted |-> FALSE]
     ELSE [weight |-> weight, has_voted |-> gives /\ weight = 0]

\* ---- C15: in an election that does not require registration vote and
\* delegate_vote never return VoterNotRegistred; when the call comes to the
\* registration gate (always for delegate_vote, with the election Open for
\* vote) a caller, and a delegate, without a record gets one created with
\* weight 1 and consumed false before the rest of the message runs, whether the
\* registration flag is Open or Closed.
C15_LazyRegistration ==
  [][(/\ call'.op \in SpendMessages
      /\ call'.election_id \in DOMAIN elections
      /\ ~elections[call'.election_id].required_registration)
       => LET id == call'.election_id
              parties == IF call'.op = "vote" THEN {call'.caller}
                         ELSE {call'.caller, call'.account}
              reached == \/ call'.op = "delegate_vote"
                         \/ elections[id].election_state = "ElectionOpen"
          IN /\ call'.result # "VoterNotRegistred"
             /\ DOMAIN voters' =
                  DOMAIN voters \cup (IF reached THEN {<<id, a>> : a \in parties} ELSE {})
             /\ \A k \in DOMAIN voters' \ DOMAIN voters :
                  voters'[k] = CreatedOnDemand(k[2])]_vars

\* a first vote created the caller's record while registration was Closed
C15_Witness ==
  /\ call.op = "vote"
  /\ call.result = "Ok"
  /\ call.weight = 1
  /\ ~elections[call.election_id].required_registration
  /\ elections[call.election_id].registration_state = "RegistrationClosed"
  /\ <<call.election_id, call.caller>> \notin DOMAIN prev_voters
  /\ voters[<<call.election_id, call.caller>>] = Consumed

\* the election record an owner's lifecycle message leaves
FlagWritten(election) ==
  IF call'.op = "open_registration"
  THEN [election EXCEPT !.registration_state = "RegistrationOpen"]
  ELSE IF call'.op = "close_registration"
  THEN [election EXCEPT !.registration_state = "RegistrationClosed"]
  ELSE IF call'.op = "open_election"
  THEN [election EXCEPT !.election_state = "ElectionOpen"]
  ELSE [election EXCEPT !.election_state = "ElectionClosed"]

LifecycleMessages ==
  {"open_registration", "close_registration", "open_election", "close_election"}

\* ---- C16: a created election has both flags Closed; open_registration,
\* close_registration, open_election and close_election called by the owner
\* succeed in every combination of the flags, set their own flag to the value
\* they name (also when it has it already) and leave the other flag, the owner,
\* requires_registration and every other election as they were.
C16_LifecycleFlags ==
  [][/\ (call'.op = "create_election" /\ call'.result = "Ok")
        => elections'[election_nonce] =
             [owner |-> call'.caller,
              required_registration |-> call'.required_registration,
              registration_state |-> "RegistrationClosed",
              election_state |-> "ElectionClosed"]
     /\ (/\ call'.op \in LifecycleMessages
         /\ call'.election_id \in DOMAIN elections
         /\ call'.caller = elections[call'.election_id].owner)
        => (/\ call'.result = "Ok"
            /\ elections' = [elections EXCEPT ![call'.election_id] = FlagWritten(@)])]_vars

\* the owner closed the registration it had opened, with the election Open
C16_Witness ==
  /\ call.op = "close_registration"
  /\ call.result = "Ok"
  /\ elections[call.election_id].registration_state = "RegistrationClosed"
  /\ elections[call.election_id].election_state = "ElectionOpen"
  /\ DOMAIN voters # {}
  /\ elections[call.election_id].required_registration

\* ---- C17: the creator of an election is its owner; a successful
\* change_ownership(id, n) makes n the owner and changes nothing else; an
\* owner-restricted call on an existing election succeeds exactly when the
\* caller is the current owner and returns OnlyOwner otherwise (so after a
\* transfer to another account the previous owner is rejected and the new one
\* accepted); and no other message changes the owner field.
C17_OwnershipTransfer ==
  [][/\ (call'.op = "create_election" /\ call'.result = "Ok")
        => elections'[election_nonce].owner = call'.caller
     /\ (call'.op = "change_ownership" /\ call'.result = "Ok")
        => elections' = [elections EXCEPT ![call'.election_id].owner = call'.account]
     /\ (call'.op \in OwnerMessages /\ call'.election_id \in DOMAIN elections)
        => call'.result = IF call'.caller = elections[call'.election_id].owner
                          THEN "Ok" ELSE "OnlyOwner"
     /\ \A id \in DOMAIN elections :
          elections'[id].owner # elections[id].owner
          => (/\ call'.op = "change_ownership"
              /\ call'.result = "Ok"
              /\ call'.election_id = id)]_vars

\* an owner handed the election to the other account
C17_Witness ==
  /\ call.op = "change_ownership"
  /\ call.result = "Ok"
  /\ call.caller # call.account
  /\ elections[call.election_id].owner = call.account

\* the tally get_result_election reports for the proposal at list position i
TallyAt(election_id, i) == get_result_election(election_id)[i][2]

\* the list positions of an election, and those that hold its greatest tally
Positions(election_id) == 1..Len(get_result_election(election_id))

Leaders(election_id) ==
  {i \in Positions(election_id) :
     \A j \in Positions(election_id) : TallyAt(election_id, j) <= TallyAt(election_id, i)}

\* the first position with the greatest tally
FirstLeader(election_id) ==
  CHOOSE i \in Leaders(election_id) : \A j \in Leaders(election_id) : i <= j

\* ---- C18: get_winner(id) returns the label and the tally of the proposal
\* with the greatest tally, the earliest in creation order among those tied for
\* it, whenever some tally is above 0; when every tally is 0, or the id holds no
\* election, it returns the empty label with tally 0.
C18_Winner ==
  \A id \in IdsFor(Names) :
    get_winner(id) =
      IF \E i \in Positions(id) : TallyAt(id, i) > 0
      THEN <<proposals_list[id][FirstLeader(id)], TallyAt(id, FirstLeader(id))>>
      ELSE <<"", 0>>

\* both proposals hold one vote and the winner is the first
C18_Witness ==
  /\ 1 \in DOMAIN elections
  /\ get_result_election(1) = <<<<"firstproposal", 1>>, <<"secondproposal", 1>>>>
  /\ get_winner(1) = <<"firstproposal", 1>>

\* ---- C19: in every election create_election has accepted the labels of the
\* proposal list are pairwise distinct and the index maps the label at list
\* position i to proposal id i.
\* Violated by the code: create_election checks only that the list is not
\* empty, and insert_proposal overwrites the index entry of a repeated label.
C19_LabelsDistinct ==
  \A id \in DOMAIN proposals_list :
    \A i \in 1..Len(proposals_list[id]) :
      /\ proposals_ids[<<id, proposals_list[id][i]>>] = i
      /\ \A j \in 1..Len(proposals_list[id]) :
           proposals_list[id][i] = proposals_list[id][j] => i = j

\* the weight of the successful votes on the labels of election_id
RECURSIVE CastOver(_, _)
CastOver(election_id, labels) ==
  IF labels = {} THEN 0
  ELSE LET l == CHOOSE x \in labels : TRUE IN
       GetOr(cast, <<election_id, l>>, 0) + CastOver(election_id, labels \ {l})

\* the sum of the tallies of a result from position i on
RECURSIVE TalliesFrom(_, _)
TalliesFrom(result, i) ==
  IF i > Len(result) THEN 0 ELSE result[i][2] + TalliesFrom(result, i + 1)

\* ---- C20: get_result_election(id) holds one pair per proposal of the
\* election, in the order of the list; the tally of a pair is the weight of the
\* successful votes on its label, so the tallies add up to the weight spent by
\* voting in the election; for an id that holds no election it is empty.
\* Violated by the code: with a repeated label (see C19) every pair of that
\* label reports the same tally and the sum counts the votes more than once.
C20_ResultIsVotesCast ==
  \A id \in IdsFor(Names) :
    LET result == get_result_election(id) IN
    IF id \notin DOMAIN elections THEN result = <<>>
    ELSE /\ Len(result) = Len(proposals_list[id])
         /\ \A i \in 1..Len(result) :
              /\ result[i][1] = proposals_list[id][i]
              /\ result[i][2] = GetOr(cast, <<id, result[i][1]>>, 0)
         /\ TalliesFrom(result, 1) = CastOver(id, Labels)

\* ---- C21: once an election is created its proposal list and the entries of
\* its label-to-id index stay as they are under every message, later
\* create_election calls included; no tally decreases, and a tally changes
\* only by a successful vote on its election.
C21_ProposalsImmutable ==
  [][/\ \A id \in DOMAIN proposals_list :
          /\ id \in DOMAIN proposals_list'
          /\ proposals_list'[id] = proposals_list[id]
     /\ \A k \in DOMAIN proposals_ids :
          /\ k \in DOMAIN proposals_ids'
          /\ proposals_ids'[k] = proposals_ids[k]
     /\ \A k \in DOMAIN proposals_ids' \ DOMAIN proposals_ids :
          k[1] \notin DOMAIN proposals_list
     /\ \A k \in DOMAIN vote_proposals :
          /\ k \in DOMAIN vote_proposals'
          /\ vote_proposals'[k] >= vote_proposals[k]
          /\ vote_proposals'[k] # vote_proposals[k]
             => (/\ call'.op = "vote"
                 /\ call'.result = "Ok"
                 /\ call'.election_id = k[1])]_vars

\* a second election was created after a vote had been counted in the first
C21_Witness ==
  /\ call.op = "create_election"
  /\ call.result = "Ok"
  /\ DOMAIN proposals_list = {1, 2}
  /\ \E k \in DOMAIN vote_proposals : k[1] = 1 /\ vote_proposals[k] = 1

CountersAgree ==
  /\ election_count = election_nonce - 1
  /\ election_count = Len(elections_list)
  /\ election_count = Cardinality(DOMAIN elections)
  /\ DOMAIN elections = 1..election_count
  /\ \A n \in DOMAIN elections_ids : elections_ids[n] \in DOMAIN elections

\* the counters change only by a successful create_election, by one, and no
\* election or name-to-id entry is removed or remapped
CountersStep ==
  /\ election_nonce' >= election_nonce
  /\ election_count' >= election_count
  /\ IF call'.op = "create_election" /\ call'.result = "Ok"
     THEN /\ election_nonce' = election_nonce + 1
          /\ election_count' = election_count + 1
     ELSE /\ election_nonce' = election_nonce
          /\ election_count' = election_count
  /\ DOMAIN elections \subseteq DOMAIN elections'
  /\ \A n \in DOMAIN elections_ids :
       /\ n \in DOMAIN elections_ids'
       /\ elections_ids'[n] = elections_ids[n]

\* ---- C23: the counters start at election_nonce = 1 and election_count = 0;
\* in every reachable state election_count equals election_nonce - 1, the
\* length of the election list and the number of election records, and the ids
\* that exist are 1..election_count; the counters never decrease and change
\* only by a successful create_election, each by exactly 1; no election and no
\* name-to-id entry is ever removed or remapped.
C23_RegistryCounters ==
  /\ (election_nonce = 1 /\ election_count = 0)
  /\ []CountersAgree
  /\ [][CountersStep]_vars

\* two elections exist and a third create_election was rejected
C23_Witness ==
  /\ election_count = 2
  /\ election_nonce = 3
  /\ call.op = "create_election"
  /\ call.result = "ElectionNotValid"

\* the message of call' aborts in the state it is called in
CallPanics ==
  IF call'.op = "vote"
  THEN vote_panics(call'.caller, call'.election_id, call'.proposal, call'.weight)
  ELSE IF call'.op = "delegate_vote"
  THEN delegate_vote_panics(call'.caller, call'.election_id, call'.account, call'.weight)
  ELSE IF call'.op \in OwnerMessages
  THEN owner_message_panics(call'.caller, call'.election_id)
  ELSE FALSE

\* ---- C24: no message aborts: in every reachable state and for every call
\* subtract_weight is entered with a weight not above the weight of the record
\* (also when delegator and delegate are the same account), and every unwrap
\* of a voter record, an election record, a proposal id or a tally in vote,
\* delegate_vote and the owner messages finds an entry; no weight and no tally
\* is ever below 0.
C24_NoAbort ==
  [][/\ ~CallPanics
     /\ \A k \in DOMAIN voters' : voters'[k].weight >= 0
     /\ \A k \in DOMAIN vote_proposals' : vote_proposals'[k] >= 0]_vars

\* an account delegated its whole weight 2 to itself and kept it
C24_Witness ==
  /\ call.op = "delegate_vote"
  /\ call.result = "Ok"
  /\ call.caller = call.account
  /\ call.weight = 2
  /\ voters[<<call.election_id, call.caller>>] = [weight |-> 2, has_voted |-> FALSE]

\* the sum of the tallies stored under the proposal ids `keys`
RECURSIVE TalliesOver(_)
TalliesOver(keys) ==
  IF keys = {} THEN 0
  ELSE LET k == CHOOSE x \in keys : TRUE IN
       vote_proposals[k] + TalliesOver(keys \ {k})

\* the sum of the stored tallies of election_id, one per proposal id
TallySum(election_id) ==
  TalliesOver({k \in DOMAIN vote_proposals : k[1] = election_id})

\* ---- C25: in every reachable state and for every election the weights of
\* its voter records plus its stored tallies (one per proposal id) add up to
\* the number of its voter records.
C25_WeightAccounting ==
  \A id \in IdsFor(Names) :
    WeightSum(voters, id) + TallySum(id) = Cardinality(RecordsOf(voters, id))

\* two records: one unit was delegated and then voted, one is still held
C25_Witness ==
  /\ Cardinality(RecordsOf(voters, 1)) = 2
  /\ TallySum(1) = 1
  /\ WeightSum(voters, 1) = 1
  /\ \E k \in DOMAIN voters : voters[k] = Consumed
  /\ call.op = "delegate_vote"
  /\ call.result = "Ok"
  /\ call.weight = 1

\* ---- C26: every step that changes a tally of an election is a successful
\* vote on that election made while its election flag is Open; while the flag
\* is Closed every tally of the election stays as it is.
C26_TalliesMoveWhileOpen ==
  [][\A k \in DOMAIN vote_proposals :
       IF elections[k[1]].election_state = "ElectionOpen"
       THEN vote_proposals'[k] # vote_proposals[k]
            => (/\ call'.op = "vote"
                /\ call'.result = "Ok"
                /\ call'.election_id = k[1])
       ELSE vote_proposals'[k] = vote_proposals[k]]_vars

\* a vote was refused on an election closed again after votes were counted
C26_Witness ==
  /\ call.op = "vote"
  /\ call.result = "ElectionClosed"
  /\ call.election_id \in DOMAIN elections
  /\ \E k \in DOMAIN vote_proposals : k[1] = call.election_id /\ vote_proposals[k] > 0

\* ---- C27: in every reachable state every voter record with weight 0 has
\* consumed == true, also after a delegate_vote of weight 0 and after a
\* delegation to an account that has spent all its weight.
\* Violated by the code: delegate writes consumed = false whatever the sum, so
\* a delegation of weight 0 to a consumed record leaves (0, false).
C27_ZeroWeightIsConsumed ==
  \A k \in DOMAIN voters : voters[k].weight = 0 => voters[k].has_voted

\* ---- C28: create_election checks the name before the proposal list: with a
\* name that already maps to an election and an empty list it returns
\* ElectionNotValid, not InsufficientProposals, and changes no state.
C28_NameBeforeList ==
  [][(/\ call'.op = "create_election"
      /\ call'.name \in DOMAIN elections_ids
      /\ call'.proposals = <<>>)
       => (call'.result = "ElectionNotValid" /\ UNCHANGED storage)]_vars

\* a used name with an empty list was rejected as ElectionNotValid
C28_Witness ==
  /\ call.op = "create_election"
  /\ call.proposals = <<>>
  /\ call.name \in DOMAIN elections_ids
  /\ call.result = "ElectionNotValid"
  /\ election_count = 1

====
